---- MODULE Spec2Model ----
(***************************************************************************)
(* Timezone display helpers of the date filter control:                    *)
(*   convertUTCToTimezone(utcDateTime, timezone = 'UTC')                    *)
(*   convertUTCToIST(utcDateTime)                                           *)
(*                                                                         *)
(* A JavaScript value is a record [t |-> type, s |-> characters]; a string  *)
(* is the sequence of its characters, each a one-character string.  The    *)
(* character U+221E (infinity) is written "U+221E".  A time value is NaN    *)
(* or [day |-> days since 1970-01-01, ms |-> milliseconds within the day]   *)
(* (ECMAScript's Day(t) and TimeWithinDay(t)).                              *)
(***************************************************************************)
EXTENDS Integers, Sequences, FiniteSets, TLC

VARIABLES fn,           \* the function last called, "none" before the first call
          utcDateTime,  \* its argument
          timezone,     \* its timezone argument ("omitted": the default applies)
          host,         \* the host's local timezone, minutes east of UTC
          engine,       \* the JavaScript engine's kind
          result,       \* how the call ended
          previous,     \* how the call before it ended, when this call re-applies
          applied       \* how many times the conversion was applied in a row

vars == <<fn, utcDateTime, timezone, host, engine, result, previous, applied>>

(* ------------------------------ bounds -------------------------------- *)

MaxApply == 2

(* ------------------------- strings and numbers ------------------------ *)

Str(s) == [t |-> "string", s |-> s]

Num(s) == [t |-> "number", s |-> s]

IsString(v) == v.t = "string"

DigitChars == <<"0", "1", "2", "3", "4", "5", "6", "7", "8", "9">>

IsDigit(c) == \E i \in 1..10 : DigitChars[i] = c

DigitVal(c) == (CHOOSE i \in 1..10 : DigitChars[i] = c) - 1

AllDigits(s, a, b) == \A i \in a..b : IsDigit(s[i])

Num2(s, a) == 10 * DigitVal(s[a]) + DigitVal(s[a + 1])

Num3(s, a) == 100 * DigitVal(s[a]) + 10 * DigitVal(s[a + 1]) + DigitVal(s[a + 2])

Digit(n) == DigitChars[n + 1]

Pow10(k) == <<1, 10, 100, 1000, 10000, 100000, 1000000>>[k + 1]

\* the number written by the digits s[a..b], at most six of them
NumN(s, a, b) ==
    LET d(i) == IF a + i <= b THEN DigitVal(s[b - i]) * Pow10(i) ELSE 0
    IN  d(0) + d(1) + d(2) + d(3) + d(4) + d(5)

\* a JavaScript number: an integer, or NaN
Number(n) == [nan |-> FALSE, n |-> n]

NaN == [nan |-> TRUE, n |-> 0]

\* the decimal digits of a natural number below 10^7, with no leading zero
NatChars(n) ==
    LET w == IF n < 10 THEN 1 ELSE IF n < 100 THEN 2 ELSE IF n < 1000 THEN 3
             ELSE IF n < 10000 THEN 4 ELSE IF n < 100000 THEN 5
             ELSE IF n < 1000000 THEN 6 ELSE 7
    IN  [i \in 1..w |-> Digit((n \div Pow10(w - i)) % 10)]

\* String(x), and the interpolation ${x}, of a number: decimal digits with no
\* padding, a leading '-' for a negative one, 'NaN' for NaN
NumberToString(x) == IF x.nan THEN <<"N", "a", "N">>
                     ELSE IF x.n < 0 THEN <<"-">> \o NatChars(-x.n)
                     ELSE NatChars(x.n)

\* s.padStart(2, '0')
PadStart2(s) == IF Len(s) >= 2 THEN s
                ELSE IF Len(s) = 1 THEN <<"0">> \o s
                ELSE <<"0", "0">>

\* s.includes(c) for a one-character needle
Includes(s, c) == \E i \in 1..Len(s) : s[i] = c

\* n as exactly two, or exactly four, decimal digits
Chars2(n) == <<Digit((n \div 10) % 10), Digit(n % 10)>>

Chars4(n) == Chars2(n \div 100) \o Chars2(n % 100)

(* ----------------------- ECMAScript date arithmetic -------------------- *)

msPerMinute == 60 * 1000

msPerDay == 24 * 60 * msPerMinute

IsLeap(y) == (y % 4 = 0 /\ y % 100 # 0) \/ y % 400 = 0

DaysInMonth(y, m) == IF m = 2 THEN (IF IsLeap(y) THEN 29 ELSE 28)
                     ELSE IF m \in {4, 6, 9, 11} THEN 30 ELSE 31

\* MakeDay(year, month, date): days since 1970-01-01 of a proleptic Gregorian
\* date; a date past the end of its month rolls over into the next.
MakeDay(y, m, d) ==
    LET yy  == IF m <= 2 THEN y - 1 ELSE y
        era == yy \div 400
        yoe == yy - era * 400
        mp  == IF m > 2 THEN m - 3 ELSE m + 9
        doy == (153 * mp + 2) \div 5 + d - 1
        doe == yoe * 365 + yoe \div 4 - yoe \div 100 + doy
    IN  era * 146097 + doe - 719468

\* YearFromTime, MonthFromTime (+1) and DateFromTime of a day number
CivilFromDay(z) ==
    LET zz  == z + 719468
        era == zz \div 146097
        doe == zz - era * 146097
        yoe == (doe - doe \div 1460 + doe \div 36524 - doe \div 146096) \div 365
        doy == doe - (365 * yoe + yoe \div 4 - yoe \div 100)
        mp  == (5 * doy + 2) \div 153
        d   == doy - (153 * mp + 2) \div 5 + 1
        m   == IF mp < 10 THEN mp + 3 ELSE mp - 9
        y   == yoe + era * 400 + (IF m <= 2 THEN 1 ELSE 0)
    IN  [year |-> y, month |-> m, date |-> d]

\* a time value: NaN (an invalid Date), or day * msPerDay + ms
InvalidTime == [nan |-> TRUE, day |-> 0, ms |-> 0]

\* the largest time value is 8.64e15 ms: 100,000,000 days either side of the epoch
MaxTimeDays == 100 * 1000 * 1000

\* TimeClip(day * msPerDay + ms)
MakeTime(day, ms) ==
    LET d == day + ms \div msPerDay
        m == ms % msPerDay
    IN  IF d < -MaxTimeDays \/ d > MaxTimeDays \/ (d = MaxTimeDays /\ m > 0) THEN InvalidTime
        ELSE [nan |-> FALSE, day |-> d, ms |-> m]

\* t + delta milliseconds (NaN + delta is NaN)
AddMs(t, delta) == IF t.nan THEN InvalidTime ELSE MakeTime(t.day, t.ms + delta)

\* Date.prototype.getUTCFullYear, getUTCMonth, getUTCDate, getUTCHours,
\* getUTCMinutes, getUTCSeconds: NaN for an invalid Date
getUTCFullYear(t) == IF t.nan THEN NaN ELSE Number(CivilFromDay(t.day).year)

getUTCMonth(t) == IF t.nan THEN NaN ELSE Number(CivilFromDay(t.day).month - 1)

getUTCDate(t) == IF t.nan THEN NaN ELSE Number(CivilFromDay(t.day).date)

getUTCHours(t) == IF t.nan THEN NaN ELSE Number(t.ms \div (60 * msPerMinute))

getUTCMinutes(t) == IF t.nan THEN NaN ELSE Number((t.ms \div msPerMinute) % 60)

getUTCSeconds(t) == IF t.nan THEN NaN ELSE Number((t.ms \div 1000) % 60)

\* x + 1 on a JavaScript number
Plus1(x) == IF x.nan THEN NaN ELSE Number(x.n + 1)

(* --------------------------- new Date(string) -------------------------- *)

\* The host's local timezones (minutes east of UTC; fixed-offset zones) and the
\* two kinds of engine: "strict" rejects every string outside the ECMAScript
\* date-time string format, "lenient" falls back to the common heuristics.
HostOffsets == {0, 330, -300}

Engines == {"strict", "lenient"}

NoFields == [ok |-> FALSE, year |-> 0, month |-> 1, date |-> 1, hours |-> 0,
             minutes |-> 0, seconds |-> 0, millis |-> 0, zone |-> "none", offset |-> 0]

\* The date-time string format YYYY[-MM[-DD]][THH:mm[:ss[.sss]][Z|+HH:mm|-HH:mm]],
\* read with a year of ylen digits (4 in the standard format) and the character
\* sep between date and time ("T" in the standard format).

HasYear(s, ylen) == Len(s) >= ylen /\ AllDigits(s, 1, ylen)

HasMonth(s, ylen) == /\ HasYear(s, ylen) /\ Len(s) >= ylen + 3
                     /\ s[ylen + 1] = "-" /\ AllDigits(s, ylen + 2, ylen + 3)

HasDate(s, ylen) == /\ HasMonth(s, ylen) /\ Len(s) >= ylen + 6
                    /\ s[ylen + 4] = "-" /\ AllDigits(s, ylen + 5, ylen + 6)

\* how many characters the date takes
DateLen(s, ylen) == IF HasDate(s, ylen) THEN ylen + 6
                    ELSE IF HasMonth(s, ylen) THEN ylen + 3 ELSE ylen

HasMinutes(t) == Len(t) >= 5 /\ AllDigits(t, 1, 2) /\ t[3] = ":" /\ AllDigits(t, 4, 5)

HasSeconds(t) == HasMinutes(t) /\ Len(t) >= 8 /\ t[6] = ":" /\ AllDigits(t, 7, 8)

HasMillis(t) == HasSeconds(t) /\ Len(t) >= 12 /\ t[9] = "." /\ AllDigits(t, 10, 12)

\* how many characters the time of day takes
TimeLen(t) == IF HasMillis(t) THEN 12 ELSE IF HasSeconds(t) THEN 8 ELSE 5

IsOffset(z) == /\ Len(z) = 6 /\ z[1] \in {"+", "-"} /\ AllDigits(z, 2, 3)
               /\ z[4] = ":" /\ AllDigits(z, 5, 6)

\* the designator z after the time: none (local time), 'Z', or an offset
WithDesignator(f, z) ==
    IF z = <<>> THEN [f EXCEPT !.zone = "local"]
    ELSE IF z = <<"Z">> THEN [f EXCEPT !.zone = "utc"]
    ELSE IF IsOffset(z)
    THEN [f EXCEPT !.zone = "offset",
                   !.offset = (IF z[1] = "-" THEN -1 ELSE 1) * (60 * Num2(z, 2) + Num2(z, 5))]
    ELSE NoFields

\* the time of day t, of which the first tlen characters are the time
WithTimeOfLen(f, t, tlen) ==
    WithDesignator([f EXCEPT !.hours = Num2(t, 1),
                             !.minutes = Num2(t, 4),
                             !.seconds = IF tlen >= 8 THEN Num2(t, 7) ELSE 0,
                             !.millis = IF tlen = 12 THEN Num3(t, 10) ELSE 0],
                   SubSeq(t, tlen + 1, Len(t)))

WithTime(f, t) == IF HasMinutes(t) THEN WithTimeOfLen(f, t, TimeLen(t)) ELSE NoFields

\* the date in the first dlen characters; a date alone is UTC
DateFields(s, ylen, dlen) ==
    [NoFields EXCEPT !.ok = TRUE,
                     !.year = NumN(s, 1, ylen),
                     !.month = IF dlen >= ylen + 3 THEN Num2(s, ylen + 2) ELSE 1,
                     !.date = IF dlen = ylen + 6 THEN Num2(s, ylen + 5) ELSE 1,
                     !.zone = "utc"]

FieldsAfterDate(s, ylen, sep, dlen) ==
    IF ~HasYear(s, ylen) THEN NoFields
    ELSE IF Len(s) = dlen THEN DateFields(s, ylen, dlen)
    ELSE IF s[dlen + 1] # sep THEN NoFields
    ELSE WithTime(DateFields(s, ylen, dlen), SubSeq(s, dlen + 2, Len(s)))

DateTimeFields(s, ylen, sep) == FieldsAfterDate(s, ylen, sep, DateLen(s, ylen))

\* the fields are legal values of the format, the day up to maxDate
FieldsInRange(f, maxDate) ==
    /\ f.month \in 1..12
    /\ f.date \in 1..maxDate
    /\ f.hours \in 0..24
    /\ f.minutes \in 0..59
    /\ f.seconds \in 0..59
    /\ (f.hours = 24 => f.minutes = 0 /\ f.seconds = 0 /\ f.millis = 0)
    /\ f.offset \in -1439..1439

\* minutes east of UTC of the fields' clock: the offset written, the host's
\* offset for a date-time with no designator, 0 for 'Z' and for a date alone
MinutesEast(f, hostOffset) == IF f.zone = "offset" THEN f.offset
                              ELSE IF f.zone = "local" THEN hostOffset ELSE 0

\* the instant the fields denote
TimeOfFields(f, hostOffset) ==
    AddMs(MakeTime(MakeDay(f.year, f.month, f.date),
                   ((f.hours * 60 + f.minutes) * 60 + f.seconds) * 1000 + f.millis),
          -(MinutesEast(f, hostOffset) * msPerMinute))

\* position of the first '-' of s, 0 when there is none
FirstDash(s) == IF Includes(s, "-")
                THEN CHOOSE i \in 1..Len(s) : s[i] = "-" /\ \A j \in 1..(i - 1) : s[j] # "-"
                ELSE 0

FirstOK(a, b, c) == IF a.ok THEN a ELSE IF b.ok THEN b ELSE c

YearWidthFields(s, ylen) == IF ylen \in 1..6 THEN DateTimeFields(s, ylen, "T") ELSE NoFields

\* what a lenient engine reads: the format, or a space between date and time,
\* or a year of other than four digits
LegacyFields(s) == FirstOK(DateTimeFields(s, 4, "T"), DateTimeFields(s, 4, " "),
                           YearWidthFields(s, FirstDash(s) - 1))

LegacyTime(f, hostOffset, eng) ==
    IF eng = "lenient" /\ f.ok /\ FieldsInRange(f, 31) THEN TimeOfFields(f, hostOffset)
    ELSE InvalidTime

\* The implementation-defined fallback for a string outside the format.  A strict
\* engine has none.  A lenient one accepts a day of the month up to 31 (rolling
\* over), a space between date and time (no designator: local time), and a year
\* of other than four digits.
LegacyParse(s, hostOffset, eng) == LegacyTime(LegacyFields(s), hostOffset, eng)

Signed(f, sign) == IF ~f.ok \/ (sign = "-" /\ f.year = 0) THEN NoFields
                   ELSE [f EXCEPT !.year = IF sign = "-" THEN -f.year ELSE f.year]

\* the expanded-year form: a sign and six digits of year (-000000 is excluded)
ExpandedFields(s) == IF Len(s) >= 7 /\ s[1] \in {"+", "-"}
                     THEN Signed(DateTimeFields(Tail(s), 6, "T"), s[1])
                     ELSE NoFields

StandardFields(s) == FirstOK(DateTimeFields(s, 4, "T"), ExpandedFields(s), NoFields)

ParseOrFallBack(f, s, hostOffset, eng) ==
    IF f.ok /\ FieldsInRange(f, DaysInMonth(f.year, f.month)) THEN TimeOfFields(f, hostOffset)
    ELSE LegacyParse(s, hostOffset, eng)

\* new Date(s).getTime() for a string s
DateParse(s, hostOffset, eng) == ParseOrFallBack(StandardFields(s), s, hostOffset, eng)

(* ------------------------------ the module ---------------------------- *)

NegInfinity == Str(<<"-", "U+221E">>)

PosInfinity == Str(<<"U+221E">>)

EmptyString == Str(<<>>)

Null == [t |-> "null", s |-> <<>>]

\* !v : the empty string, null and the number 0 are falsy
Falsy(v) == \/ v.t = "null"
            \/ (v.t = "string" /\ v.s = <<>>)
            \/ (v.t = "number" /\ v.s = <<"0">>)

\* 5.5 * 60 * 60 * 1000
ISTOffsetMs == 330 * msPerMinute

\* how a call ends, with the branch it took and the instant it parsed
Return(v, br, d) == [outcome |-> "return", value |-> v, branch |-> br, utcDate |-> d]

Throw(br) == [outcome |-> "throw", value |-> Null, branch |-> br, utcDate |-> InvalidTime]

\* utcDateTime.includes(..) raises a TypeError on a value that is no string;
\* nothing else in the try block raises: new Date(string) yields an invalid Date
\* and the getters of an invalid Date yield NaN.
TryBlockThrows(v) == ~IsString(v)

\* the parse branch of a string: it has 'Z' or '+'; else it has 'T'; else neither
ParseBranch(s) == IF Includes(s, "Z") \/ Includes(s, "+") THEN "zoned"
                  ELSE IF Includes(s, "T") THEN "appendZ"
                  ELSE "direct"

ParseBranches == {"zoned", "appendZ", "direct"}

(* convertUTCToTimezone *)

\* variant: the default zone were 'IST'
DefaultTimezoneIST == "IST"

\* the default of the timezone parameter
DefaultTimezone == "UTC"

\* variant: the guard without the two infinity sentinels
TimezoneGuardFalsyOnly(v) == Falsy(v)

\* !utcDateTime || utcDateTime === '-inf' || utcDateTime === 'inf' (U+221E)
TimezoneGuard(v) == Falsy(v) \/ v = NegInfinity \/ v = PosInfinity

TimezoneParse(s, hostOffset, eng) ==
    IF Includes(s, "Z") \/ Includes(s, "+") THEN DateParse(s, hostOffset, eng)
    ELSE IF Includes(s, "T") THEN DateParse(s \o <<"Z">>, hostOffset, eng)
    ELSE DateParse(s, hostOffset, eng)

\* variant: no offset added
TimezoneShiftNone(utc, tz) == utc

\* variant: 5 hours added, the half hour dropped
TimezoneShiftHoursOnly(utc, tz) == IF tz = "IST" THEN AddMs(utc, 5 * 60 * msPerMinute) ELSE utc

\* targetDate: the parsed instant plus the zone's offset
TimezoneShift(utc, tz) == IF tz = "IST" THEN AddMs(utc, ISTOffsetMs) ELSE utc

TimezoneFormat(targetDate) ==
    LET year    == getUTCFullYear(targetDate)
        month   == PadStart2(NumberToString(Plus1(getUTCMonth(targetDate))))
        day     == PadStart2(NumberToString(getUTCDate(targetDate)))
        hours   == PadStart2(NumberToString(getUTCHours(targetDate)))
        minutes == PadStart2(NumberToString(getUTCMinutes(targetDate)))
        seconds == PadStart2(NumberToString(getUTCSeconds(targetDate)))
    IN  NumberToString(year) \o <<"-">> \o month \o <<"-">> \o day \o <<"T">>
        \o hours \o <<":">> \o minutes \o <<":">> \o seconds

\* variant: the catch clause raising again
TimezoneCatchRethrows(v) == Throw("catch")

\* catch (error) { return utcDateTime; }
TimezoneCatch(v) == Return(v, "catch", InvalidTime)

\* the rest of the try block once utcDate is parsed
TimezoneResult(utc, tz, br) == Return(Str(TimezoneFormat(TimezoneShift(utc, tz))), br, utc)

\* the timezone parameter with its default
TimezoneParameter(tzArg) == IF tzArg = "omitted" THEN DefaultTimezone ELSE tzArg

convertUTCToTimezone(v, tzArg, hostOffset, eng) ==
    LET tz == TimezoneParameter(tzArg)
    IN  IF TimezoneGuard(v) THEN Return(v, "sentinel", InvalidTime)
        ELSE IF tz = "UTC" THEN Return(v, "utc", InvalidTime)
        ELSE IF TryBlockThrows(v) THEN TimezoneCatch(v)
        ELSE TimezoneResult(TimezoneParse(v.s, hostOffset, eng), tz, ParseBranch(v.s))

(* convertUTCToIST *)

\* !utcDateTime || utcDateTime === '-inf' || utcDateTime === 'inf' (U+221E)
ISTGuard(v) == Falsy(v) \/ v = NegInfinity \/ v = PosInfinity

\* variant: no 'Z' appended to a string with 'T'
ISTParseAsWritten(s, hostOffset, eng) == DateParse(s, hostOffset, eng)

ISTParse(s, hostOffset, eng) ==
    IF Includes(s, "Z") \/ Includes(s, "+") THEN DateParse(s, hostOffset, eng)
    ELSE IF Includes(s, "T") THEN DateParse(s \o <<"Z">>, hostOffset, eng)
    ELSE DateParse(s, hostOffset, eng)

ISTFormat(istDate) ==
    LET year    == getUTCFullYear(istDate)
        month   == PadStart2(NumberToString(Plus1(getUTCMonth(istDate))))
        day     == PadStart2(NumberToString(getUTCDate(istDate)))
        hours   == PadStart2(NumberToString(getUTCHours(istDate)))
        minutes == PadStart2(NumberToString(getUTCMinutes(istDate)))
        seconds == PadStart2(NumberToString(getUTCSeconds(istDate)))
    IN  NumberToString(year) \o <<"-">> \o month \o <<"-">> \o day \o <<"T">>
        \o hours \o <<":">> \o minutes \o <<":">> \o seconds

\* catch (error) { return utcDateTime; }
ISTCatch(v) == Return(v, "catch", InvalidTime)

\* the rest of the try block once utcDate is parsed
ISTResult(utc, br) == Return(Str(ISTFormat(AddMs(utc, ISTOffsetMs))), br, utc)

convertUTCToIST(v, hostOffset, eng) ==
    IF ISTGuard(v) THEN Return(v, "sentinel", InvalidTime)
    ELSE IF TryBlockThrows(v) THEN ISTCatch(v)
    ELSE ISTResult(ISTParse(v.s, hostOffset, eng), ParseBranch(v.s))

(* ------------------------------ the inputs ---------------------------- *)

Years == {999, 2023, 2024, 9999}

MonthDates == {<<1, 1>>, <<2, 28>>, <<2, 29>>, <<12, 31>>}

Clocks == {<<0, 0, 0>>, <<12, 0, 0>>, <<18, 29, 59>>, <<18, 30, 0>>, <<20, 0, 0>>, <<23, 59, 59>>}

UTCDesignator == <<"Z">>

PlusZero == <<"+", "0", "0", ":", "0", "0">>

PlusIST == <<"+", "0", "5", ":", "3", "0">>

MinusFive == <<"-", "0", "5", ":", "0", "0">>

Designators == {<<>>, UTCDesignator, PlusZero, PlusIST, MinusFive}

DateChars(y, md) == Chars4(y) \o <<"-">> \o Chars2(md[1]) \o <<"-">> \o Chars2(md[2])

ClockChars(c) == Chars2(c[1]) \o <<":">> \o Chars2(c[2]) \o <<":">> \o Chars2(c[3])

DateTimeChars(y, md, sep, c, z) == DateChars(y, md) \o <<sep>> \o ClockChars(c) \o z

\* YYYY-MM-DDTHH:mm:ss with or without a zone designator
TDateTimes == {DateTimeChars(y, md, "T", c, z) :
                  y \in Years, md \in MonthDates, c \in Clocks, z \in Designators}

\* YYYY-MM-DD HH:mm:ss
SpaceDateTimes == {DateTimeChars(y, md, " ", c, <<>>) :
                      y \in Years, md \in MonthDates, c \in Clocks}

\* YYYY-MM-DD
DateOnly == {DateChars(y, md) : y \in Years, md \in MonthDates}

\* the last instant a Date can hold, and a year before year 0
MaxDate == <<"+", "2", "7", "5", "7", "6", "0">> \o <<"-", "0", "9", "-", "1", "3", "T">>
           \o ClockChars(<<0, 0, 0>>) \o UTCDesignator

YearMinusOne == <<"-", "0", "0", "0", "0", "0", "1">> \o <<"-", "0", "1", "-", "0", "1", "T">>
                \o ClockChars(<<0, 0, 0>>)

NotADate == <<"n", "o", "t", "-", "a", "-", "d", "a", "t", "e">>

Malformed == {NotADate,
              DateTimeChars(2024, <<13, 1>>, "T", <<0, 0, 0>>, <<>>),
              DateTimeChars(2024, <<1, 1>>, "T", <<25, 0, 0>>, <<>>),
              <<"T">>, <<"Z">>, <<"2", "0", "2", "4", "0", "1", "0", "1">>}

Sentinels == {EmptyString, NegInfinity, PosInfinity}

StringInputs == Sentinels \cup {Str(s) : s \in TDateTimes \cup SpaceDateTimes \cup DateOnly
                                              \cup Malformed \cup {MaxDate, YearMinusOne}}

\* what a caller can pass at run time: the strings, and values that are no string
Inputs == StringInputs \cup {Null, Num(<<"4", "2">>)}

TimezoneArgs == {"UTC", "IST", "omitted"}

(* --------------------------- the state machine ------------------------ *)

NoResult == Return(EmptyString, "none", InvalidTime)

Init == /\ fn = "none"
        /\ utcDateTime = EmptyString
        /\ timezone = "omitted"
        /\ host \in HostOffsets
        /\ engine \in Engines
        /\ result = NoResult
        /\ previous = NoResult
        /\ applied = 0

\* one call of convertUTCToTimezone(v, tz) on this host
CallTimezone(v, tz) ==
    /\ fn' = "convertUTCToTimezone"
    /\ utcDateTime' = v
    /\ timezone' = tz
    /\ result' = convertUTCToTimezone(v, tz, host, engine)
    /\ UNCHANGED <<host, engine>>

\* one call of convertUTCToIST(v) on this host
CallIST(v) ==
    /\ fn' = "convertUTCToIST"
    /\ utcDateTime' = v
    /\ timezone' = "IST"
    /\ result' = convertUTCToIST(v, host, engine)
    /\ UNCHANGED <<host, engine>>

ConvertUTCToTimezone ==
    /\ fn = "none"
    /\ \E v \in Inputs, tz \in TimezoneArgs : CallTimezone(v, tz)
    /\ applied' = 1
    /\ UNCHANGED previous

ConvertUTCToIST ==
    /\ fn = "none"
    /\ \E v \in Inputs : CallIST(v)
    /\ applied' = 1
    /\ UNCHANGED previous

\* the caller passes the displayed value through the same conversion again
ReapplyTimezone ==
    /\ fn = "convertUTCToTimezone"
    /\ result.outcome = "return"
    /\ applied < MaxApply
    /\ CallTimezone(result.value, timezone)
    /\ applied' = applied + 1
    /\ previous' = result

ReapplyIST ==
    /\ fn = "convertUTCToIST"
    /\ result.outcome = "return"
    /\ applied < MaxApply
    /\ CallIST(result.value)
    /\ applied' = applied + 1
    /\ previous' = result

Next == \/ ConvertUTCToTimezone
        \/ ConvertUTCToIST
        \/ ReapplyTimezone
        \/ ReapplyIST

Spec == Init /\ [][Next]_vars

(* ------------------------------- properties --------------------------- *)

\* the string has 'NaN' in it
ContainsNaN(s) == \E i \in 1..(Len(s) - 2) : s[i] = "N" /\ s[i + 1] = "a" /\ s[i + 2] = "N"

\* exactly YYYY-MM-DDTHH:mm:ss
Canonical19(s) ==
    /\ Len(s) = 19
    /\ AllDigits(s, 1, 4) /\ s[5] = "-" /\ AllDigits(s, 6, 7) /\ s[8] = "-" /\ AllDigits(s, 9, 10)
    /\ s[11] = "T"
    /\ AllDigits(s, 12, 13) /\ s[14] = ":" /\ AllDigits(s, 15, 16) /\ s[17] = ":" /\ AllDigits(s, 18, 19)

\* the last call was an IST conversion that went through one of the parse branches
ParsedForIST == fn # "none" /\ timezone = "IST" /\ result.branch \in ParseBranches

\* the call rendered a date-time: it parsed, and nothing in its output is NaN
Rendered(r) == r.branch \in ParseBranches /\ ~ContainsNaN(r.value.s)

\* C1: under IST, a non-sentinel string that does not parse to a valid instant is
\* returned unchanged by both functions, and the output has no 'NaN' in it.
C1_UnparseableReturnsInput ==
    (ParsedForIST /\ result.utcDate.nan)
        => (result.value = utcDateTime /\ ~ContainsNaN(result.value.s))

\* The fields of a YYYY-MM-DDTHH:mm:ss string with no designator that names a
\* real calendar date and time, and the fields 5 hours 30 minutes later, found by
\* carrying from minutes to hours, days, months and years.
IsPlainDateTime(v) ==
    /\ IsString(v) /\ Len(v.s) = 19
    /\ LET f == DateTimeFields(v.s, 4, "T")
       IN  f.ok /\ f.zone = "local" /\ f.hours < 24 /\ FieldsInRange(f, DaysInMonth(f.year, f.month))

CarriedFields(f) ==
    LET mm   == f.minutes + 30
        hh   == f.hours + 5 + mm \div 60
        dd   == f.date + hh \div 24
        over == dd > DaysInMonth(f.year, f.month)
        mo   == IF over THEN f.month + 1 ELSE f.month
    IN  [year    |-> IF mo > 12 THEN f.year + 1 ELSE f.year,
         month   |-> IF mo > 12 THEN 1 ELSE mo,
         date    |-> IF over THEN 1 ELSE dd,
         hours   |-> hh % 24,
         minutes |-> mm % 60,
         seconds |-> f.seconds]

\* the fields written in an output <year>-MM-DDTHH:mm:ss, whatever the year's width
WrittenFields(s) ==
    LET g == DateTimeFields(s, FirstDash(s) - 1, "T")
    IN  [ok |-> g.ok /\ g.zone = "local", year |-> g.year, month |-> g.month, date |-> g.date,
         hours |-> g.hours, minutes |-> g.minutes, seconds |-> g.seconds]

Midnight2024 == Str(DateTimeChars(2024, <<1, 1>>, "T", <<0, 0, 0>>, <<>>))

Noon2024 == Str(DateTimeChars(2024, <<1, 1>>, "T", <<12, 0, 0>>, <<>>))

Evening2024 == Str(DateTimeChars(2024, <<1, 1>>, "T", <<20, 0, 0>>, <<>>))

NewYearsEve2023 == Str(DateTimeChars(2023, <<12, 31>>, "T", <<20, 0, 0>>, <<>>))

\* C2: convertUTCToTimezone(x, 'IST') of a parseable YYYY-MM-DDTHH:mm:ss with no
\* designator writes the date and time 330 minutes after x read as UTC, carried
\* across hour, day, month and year, with the seconds unchanged; in particular
\* 2024-01-01T00:00:00 -> 2024-01-01T05:30:00, T12:00:00 -> T17:30:00 and
\* 2024-01-01T20:00:00 -> 2024-01-02T01:30:00.
C2_AddsFiveAndAHalfHours ==
    (fn = "convertUTCToTimezone" /\ timezone = "IST" /\ IsPlainDateTime(utcDateTime)) =>
        LET f == DateTimeFields(utcDateTime.s, 4, "T")
            e == CarriedFields(f)
            w == WrittenFields(result.value.s)
        IN  /\ w.ok
            /\ <<w.year, w.month, w.date, w.hours, w.minutes, w.seconds>>
                  = <<e.year, e.month, e.date, e.hours, e.minutes, e.seconds>>
            /\ w.seconds = f.seconds
            /\ (utcDateTime = Midnight2024 =>
                  result.value.s = <<"2", "0", "2", "4", "-", "0", "1", "-", "0", "1", "T",
                                     "0", "5", ":", "3", "0", ":", "0", "0">>)
            /\ (utcDateTime = Noon2024 =>
                  result.value.s = <<"2", "0", "2", "4", "-", "0", "1", "-", "0", "1", "T",
                                     "1", "7", ":", "3", "0", ":", "0", "0">>)
            /\ (utcDateTime = Evening2024 =>
                  result.value.s = <<"2", "0", "2", "4", "-", "0", "1", "-", "0", "2", "T",
                                     "0", "1", ":", "3", "0", ":", "0", "0">>)

\* C2 witness: a conversion that carries into the next year
C2_Witness ==
    /\ fn = "convertUTCToTimezone" /\ timezone = "IST"
    /\ utcDateTime = NewYearsEve2023
    /\ result.value = Str(DateTimeChars(2024, <<1, 1>>, "T", <<1, 30, 0>>, <<>>))

\* C3: a sentinel ('', '-inf', 'inf') is returned unchanged by both functions, for
\* every zone, and no parse is attempted.
C3_SentinelPassThrough ==
    (fn # "none" /\ utcDateTime \in Sentinels)
        => result = Return(utcDateTime, "sentinel", InvalidTime)

\* C3 witness: the infinity sentinel went through the IST conversion
C3_Witness ==
    /\ fn = "convertUTCToTimezone" /\ timezone = "IST"
    /\ utcDateTime = PosInfinity /\ result.value = PosInfinity

\* C4: convertUTCToTimezone(x, 'UTC') and convertUTCToTimezone(x) return the
\* string x exactly, whatever x is, without parsing it.
C4_UTCIdentity ==
    (fn = "convertUTCToTimezone" /\ timezone \in {"UTC", "omitted"} /\ IsString(utcDateTime))
        => /\ result.outcome = "return"
           /\ result.value = utcDateTime
           /\ result.branch \in {"sentinel", "utc"}

\* C4 witness: a string with a zone designator was passed with the zone omitted
C4_Witness ==
    /\ fn = "convertUTCToTimezone" /\ timezone = "omitted"
    /\ utcDateTime = Str(DateTimeChars(2024, <<1, 1>>, "T", <<20, 0, 0>>, PlusIST))
    /\ result.value = utcDateTime

\* C5 as stated: for every non-sentinel string x, converting to IST twice differs
\* from converting once.
C5_TwiceDiffersUnlessSentinel ==
    (fn = "convertUTCToTimezone" /\ timezone = "IST" /\ applied >= 2
       /\ previous.branch \in ParseBranches)
        => result.value # utcDateTime

\* C5 amended: converting to IST twice differs from converting once exactly when
\* the first conversion rendered a date-time (x parsed to a valid instant whose
\* shift is a valid instant); for a sentinel and for an x that does not parse,
\* the second conversion returns what the first returned.
C5_TwiceDiffersWhenRendered ==
    (fn = "convertUTCToTimezone" /\ timezone = "IST" /\ applied >= 2)
        => ((result.value # utcDateTime) <=> Rendered(previous))

\* C5 witness: a date-time was shifted twice
C5_Witness ==
    /\ fn = "convertUTCToTimezone" /\ timezone = "IST" /\ applied = 2
    /\ Rendered(previous)
    /\ utcDateTime = Str(DateTimeChars(2024, <<1, 1>>, "T", <<5, 30, 0>>, <<>>))
    /\ result.value = Str(DateTimeChars(2024, <<1, 1>>, "T", <<11, 0, 0>>, <<>>))

\* C6: what convertUTCToTimezone returns does not depend on the host's local
\* timezone: on every other host the same call returns the same string.
C6_HostIndependent ==
    fn = "convertUTCToTimezone" =>
        \A h \in HostOffsets :
            convertUTCToTimezone(utcDateTime, timezone, h, engine).value = result.value

C8_SameAsIST ==
    /\ fn = "convertUTCToIST" => result = convertUTCToTimezone(utcDateTime, "IST", host, engine)
    /\ (fn = "convertUTCToTimezone" /\ timezone = "IST")
          => result = convertUTCToIST(utcDateTime, host, engine)

\* C8 witness: convertUTCToIST converted a date-time with no designator on a host
\* that is not on UTC
C8_Witness ==
    /\ fn = "convertUTCToIST" /\ host # 0
    /\ result.branch = "appendZ" /\ ~result.utcDate.nan

\* C9: whenever the input parses to a valid instant under IST, the output is
\* exactly YYYY-MM-DDTHH:mm:ss, 19 characters with a four-digit year.
C9_CanonicalForm ==
    (ParsedForIST /\ ~result.utcDate.nan) => Canonical19(result.value.s)

\* the string is a date-time of the format ending in 'Z' or in +HH:mm / -HH:mm
HasDesignator(s) ==
    LET f == DateTimeFields(s, 4, "T")
    IN  /\ Len(s) > 19 /\ f.ok /\ FieldsInRange(f, DaysInMonth(f.year, f.month))
        /\ (f.zone = "offset" \/ s[Len(s)] = "Z")

\* C10: under IST a string with 'Z' or '+' is parsed as written, else one with
\* 'T' is parsed with 'Z' appended, else it is parsed as written; 'Z' and '+00:00'
\* give what the unmarked string gives; and every string with a zone designator
\* is converted from the instant the designator denotes.
C10_BranchesAndDesignators ==
    ParsedForIST =>
        LET s == utcDateTime.s
        IN  /\ result.branch = IF Includes(s, "Z") \/ Includes(s, "+") THEN "zoned"
                               ELSE IF Includes(s, "T") THEN "appendZ" ELSE "direct"
            /\ \A z \in {UTCDesignator, PlusZero} :
                  (HasDesignator(s) /\ SubSeq(s, 20, Len(s)) = z)
                      => result.value
                           = convertUTCToTimezone(Str(SubSeq(s, 1, 19)), "IST", host, engine).value
            /\ HasDesignator(s)
                  => result.utcDate = TimeOfFields(DateTimeFields(s, 4, "T"), host)

====
